---- MODULE Spec2Model ----
(***************************************************************************)
(* A model of the pololu-motoron driver: the frame codec of                *)
(* src/src/commands.rs (encode_command, decode_response, the command and   *)
(* response families, get_crc) and the Device session of src/src/lib.rs.   *)
(*                                                                         *)
(* Bytes are naturals below 256, byte buffers are sequences of bytes.      *)
(* An f32 speed is <<"num", n>>, standing for the float n / SpeedDen (a    *)
(* dyadic rational, exact in f32, and so is its product with 800), or      *)
(* <<"nan", 0>>.                                                           *)
(***************************************************************************)
EXTENDS Integers, Sequences, FiniteSets, TLC

VARIABLES
    state,             \* "Uninitialized" | "Ready" (a Device exists) | "Failed" (Device::new returned Err)
    controller_type,   \* Device.controller_type
    cmd_crc,           \* Device.cmd_crc
    res_crc,           \* Device.res_crc
    i2c_general_call,  \* Device.i2c_general_call
    dev,               \* the protocol options held by the controller at the other end of the bus
    first_write,       \* history: <<f>> where f is the first frame the transport accepted, <<>> before
    last               \* history: the last call made, its arguments, its result and its transport traffic
                       \* (writes: the frames handed to device.write; reads: the lengths asked of device.read)

vars == <<state, controller_type, cmd_crc, res_crc, i2c_general_call, dev, first_write, last>>

-----------------------------------------------------------------------------
(* Bounds of the model.                                                    *)

\* longest list of (motor, speed) pairs handed to set_multi_speed
MaxPairs == 2
\* longest list of speeds handed to set_all_speeds
MaxSpeeds == 3
\* longest response payload handed to decode_response (before its trailer)
MaxPayload == 5

-----------------------------------------------------------------------------
(* u8 arithmetic.                                                          *)

RECURSIVE BitXorRec(_, _, _)
BitXorRec(a, b, n) ==
    IF n = 0 THEN 0
    ELSE ((a + b) % 2) + 2 * BitXorRec(a \div 2, b \div 2, n - 1)

RECURSIVE BitAndRec(_, _, _)
BitAndRec(a, b, n) ==
    IF n = 0 THEN 0
    ELSE ((a % 2) * (b % 2)) + 2 * BitAndRec(a \div 2, b \div 2, n - 1)

\* a & b and a | b on 16-bit operands (u8 and u16 both fit)
BitAnd(a, b) == BitAndRec(a, b, 16)
BitOr(a, b) == a + b - BitAnd(a, b)
\* a << n on u8, a >> n
Shl8(a, n) == (a * (2 ^ n)) % 256
Shr(a, n) == a \div (2 ^ n)

\* a ^ b on 4-bit operands, tabulated once, and a ^ b on bytes from it
XorTable == [a \in 0..15 |-> [b \in 0..15 |-> BitXorRec(a, b, 4)]]
Xor8(a, b) == XorTable[a % 16][b % 16] + 16 * XorTable[a \div 16][b \div 16]

\* mem::transmute::<i16, u16>: the two's-complement bit pattern
transmute_i16_u16(v) == v % 65536

-----------------------------------------------------------------------------
(* get_crc                                                                 *)

\* the inner loop of get_crc: n rounds of "if low bit set, xor 0x91; shift right"
RECURSIVE CrcRounds(_, _)
CrcRounds(crc, n) ==
    IF n = 0 THEN crc
    ELSE CrcRounds(Shr(IF BitAndRec(crc, 1, 1) # 0 THEN BitXorRec(crc, 145, 8) ELSE crc, 1), n - 1)

\* the eight rounds applied to every register value, tabulated once
CrcTable == [c \in 0..255 |-> CrcRounds(c, 8)]

RECURSIVE CrcFold(_, _, _)
CrcFold(message, i, crc) ==
    IF i > Len(message) THEN crc
    ELSE CrcFold(message, i + 1, CrcTable[Xor8(crc, message[i])])

get_crc(message) == CrcFold(message, 1, 0)

-----------------------------------------------------------------------------
(* Errors and results.                                                     *)

NoErr == [kind |-> "None"]

\* commands::Error::InvalidValue
InvalidValue(min, max, value, field) ==
    [kind |-> "InvalidValue", min |-> min, max |-> max, value |-> value, field |-> field]

\* commands::Error::InvalidResponseLength
InvalidResponseLength(expected, actual) ==
    [kind |-> "InvalidResponseLength", expected |-> expected, actual |-> actual]

\* commands::Error::InvalidResponseCrc
InvalidResponseCrc(expected, actual) ==
    [kind |-> "InvalidResponseCrc", expected |-> expected, actual |-> actual]

\* check_value! / check_value_expr!: the error of one range check, NoErr when it passes
check_value_lower_only(v, min, max, field) ==
    IF v < min THEN InvalidValue(min, max, v, field) ELSE NoErr

check_value(v, min, max, field) ==
    IF v < min \/ v > max THEN InvalidValue(min, max, v, field) ELSE NoErr

\* the error of the first failing check of a sequence of checks (`return Err` leaves at once)
RECURSIVE FirstErrFrom(_, _)
FirstErrFrom(checks, i) ==
    IF i > Len(checks) THEN NoErr
    ELSE IF checks[i] # NoErr THEN checks[i]
    ELSE FirstErrFrom(checks, i + 1)

FirstErr(checks) == FirstErrFrom(checks, 1)

\* a buffer of n zero bytes: vec![0; n]
Zeros(n) == [i \in 1..n |-> 0]

\* bytes[idx] = v with a 0-based idx
Put(bytes, idx, v) == [bytes EXCEPT ![idx + 1] = v]

\* write_inverted_bytes(data, from..to, write_offset)
write_inverted_bytes(data, from, to, write_offset) ==
    [i \in 1..Len(data) |->
        IF (i - 1 - write_offset) >= from /\ (i - 1 - write_offset) < to
        THEN Xor8(data[i - write_offset], 127)
        ELSE data[i]]

\* bool -> u8
U8FromBool(b) == IF b THEN 1 ELSE 0

-----------------------------------------------------------------------------
(* The command family: code, num_bytes, encode_body, expected_response_bytes. *)
(* A command is a record whose field type names the struct and whose other *)
(* fields are the struct's fields.                                         *)

\* Command::code
RECURSIVE code(_)
code(cmd) ==
    CASE cmd.type = "GetFirmwareVersion" -> 135
      [] cmd.type = "SetProtocolOptions" -> 139
      [] cmd.type = "ReadEeprom" -> 147
      [] cmd.type = "WriteEeprom" -> 149
      [] cmd.type = "Reinitialise" -> 150
      [] cmd.type = "Reset" -> 153
      [] cmd.type = "GetVariables" -> 154
      [] cmd.type = "SetVariable" -> 156
      [] cmd.type = "CoastNow" -> 165
      [] cmd.type = "ClearMotorFault" -> 166
      [] cmd.type = "ClearLatchedStatusFlags" -> 169
      [] cmd.type = "SetLatchedStatusFlags" -> 172
      [] cmd.type = "SetSpeed" ->
            (CASE cmd.mode = "Normal" -> 209
               [] cmd.mode = "Now" -> 210
               [] cmd.mode = "Buffered" -> 212)
      [] cmd.type = "SetAllSpeeds" ->
            (CASE cmd.mode = "Normal" -> 225
               [] cmd.mode = "Now" -> 226
               [] cmd.mode = "Buffered" -> 228)
      [] cmd.type = "SetAllSpeedsUsingBuffers" ->
            (CASE cmd.mode = "Normal" -> 240
               [] cmd.mode = "Now" -> 243)
      [] cmd.type = "SetBraking" ->
            (CASE cmd.mode = "Normal" -> 177
               [] cmd.mode = "Now" -> 178)
      [] cmd.type = "ResetCommandTimeout" -> 245
      [] cmd.type = "MultiDeviceErrorCheck" -> 245
      [] cmd.type = "MultiDeviceWrite" -> 249

\* Command::num_bytes
RECURSIVE num_bytes(_)
num_bytes(cmd) ==
    CASE cmd.type = "GetFirmwareVersion" -> 0
      [] cmd.type = "SetProtocolOptions" -> 2
      [] cmd.type = "ReadEeprom" -> 2
      [] cmd.type = "WriteEeprom" -> 6
      [] cmd.type = "Reinitialise" -> 0
      [] cmd.type = "Reset" -> 0
      [] cmd.type = "GetVariables" -> 3
      [] cmd.type = "SetVariable" -> 4
      [] cmd.type = "CoastNow" -> 0
      [] cmd.type = "ClearMotorFault" -> 1
      [] cmd.type = "ClearLatchedStatusFlags" -> 2
      [] cmd.type = "SetLatchedStatusFlags" -> 2
      [] cmd.type = "SetSpeed" -> 3
      [] cmd.type = "SetAllSpeeds" -> Len(cmd.speeds) * 2
      [] cmd.type = "SetAllSpeedsUsingBuffers" -> 0
      [] cmd.type = "SetBraking" -> 3
      [] cmd.type = "ResetCommandTimeout" -> 0
      [] cmd.type = "MultiDeviceErrorCheck" -> 2
      [] cmd.type = "MultiDeviceWrite" -> 4 + num_bytes(cmd.command)

\* Command::expected_response_bytes
expected_response_bytes(cmd) ==
    CASE cmd.type = "GetFirmwareVersion" -> 4
      [] cmd.type = "ReadEeprom" -> cmd.length
      [] cmd.type = "GetVariables" -> cmd.length
      [] cmd.type = "MultiDeviceErrorCheck" -> 1
      [] OTHER -> 0

\* the outcome of an encode_body: the error (NoErr on Ok) and the buffer as written so far
Body(err, bytes) == [err |-> err, bytes |-> bytes]

\* the checks of a body run first; on Ok the buffer is written
Checked(checks, bytes, written) ==
    IF FirstErr(checks) # NoErr THEN Body(FirstErr(checks), bytes) ELSE Body(NoErr, written)

\* the two bytes of a 14-bit field: v & 0x7F, (v >> 7) & 0x7F
Low7(v) == BitAnd(v, 127)
High7_from_bit_8(v) == BitAnd(Shr(v, 8), 127)

High7(v) == BitAnd(Shr(v, 7), 127)

\* SetProtocolOptions::encode_body
SetProtocolOptions_encode_body(cmd, bytes) ==
    LET options_byte == BitOr(BitOr(U8FromBool(cmd.crc_for_commands),
                                    Shl8(U8FromBool(cmd.crc_for_responses), 1)),
                              Shl8(U8FromBool(cmd.i2c_general_call), 2))
    IN Body(NoErr, write_inverted_bytes(Put(bytes, 0, options_byte), 0, 1, 1))

\* ReadEeprom::encode_body
ReadEeprom_encode_body(cmd, bytes) ==
    Checked(<<check_value(cmd.offset, 0, 127, "offset"),
              check_value(cmd.length, 1, 32, "length")>>,
            bytes,
            Put(Put(bytes, 0, cmd.offset), 1, cmd.length))

\* WriteEeprom::encode_body
WriteEeprom_encode_body(cmd, bytes) ==
    Checked(<<check_value(cmd.offset, 0, 127, "offset")>>,
            bytes,
            write_inverted_bytes(
                Put(Put(Put(bytes, 0, cmd.offset),
                        1, U8FromBool(BitAnd(cmd.value, 128) # 0)),
                    2, BitAnd(cmd.value, 127)),
                0, 3, 3))

\* GetVariables::encode_body
GetVariables_encode_body(cmd, bytes) ==
    Checked(<<check_value(cmd.motor, 0, 3, "motor"),
              check_value(cmd.offset, 0, 127, "offset"),
              check_value(cmd.length, 1, 32, "length")>>,
            bytes,
            Put(Put(Put(bytes, 0, cmd.motor), 1, cmd.offset), 2, cmd.length))

\* SetVariable::encode_body
SetVariable_encode_body(cmd, bytes) ==
    Checked(<<check_value(cmd.motor, 0, 3, "motor"),
              check_value(cmd.offset, 0, 127, "offset"),
              check_value(cmd.value, 0, 16383, "value")>>,
            bytes,
            Put(Put(Put(Put(bytes, 0, cmd.motor), 1, cmd.offset),
                    2, Low7(cmd.value)), 3, High7(cmd.value)))

\* ClearMotorFault::encode_body
ClearMotorFault_encode_body(cmd, bytes) ==
    Body(NoErr, Put(bytes, 0, U8FromBool(cmd.unconditional)))

\* ClearLatchedStatusFlags::encode_body and SetLatchedStatusFlags::encode_body
LatchedStatusFlags_encode_body(cmd, bytes) ==
    Checked(<<check_value(cmd.flags, 0, 1023, "flags")>>,
            bytes,
            Put(Put(bytes, 0, BitAnd(cmd.flags, 127)), 1, BitAnd(Shr(cmd.flags, 7), 7)))

\* SetSpeed::encode_body
SetSpeed_encode_body(cmd, bytes) ==
    LET speed_as_2c == transmute_i16_u16(cmd.speed)
    IN Checked(<<check_value(cmd.motor, 0, 3, "motor"),
                 check_value(cmd.speed, -800, 800, "speed")>>,
               bytes,
               Put(Put(Put(bytes, 0, cmd.motor), 1, Low7(speed_as_2c)), 2, High7(speed_as_2c)))

\* SetAllSpeeds::encode_body: the loop over the speeds, from 0-based idx on
RECURSIVE SetAllSpeeds_encode_body_from(_, _, _)
SetAllSpeeds_encode_body_from(cmd, idx, bytes) ==
    IF idx >= Len(cmd.speeds) THEN Body(NoErr, bytes)
    ELSE LET speed == cmd.speeds[idx + 1]
             speed_as_2c == transmute_i16_u16(speed)
         IN IF check_value(speed, -800, 800, "speeds") # NoErr
            THEN Body(check_value(speed, -800, 800, "speeds"), bytes)
            ELSE SetAllSpeeds_encode_body_from(
                     cmd, idx + 1,
                     Put(Put(bytes, idx * 2, Low7(speed_as_2c)),
                         idx * 2 + 1, High7(speed_as_2c)))

\* SetBraking::encode_body
SetBraking_encode_body(cmd, bytes) ==
    Checked(<<check_value(cmd.motor, 1, 3, "motor"),
              check_value(cmd.ammount, 0, 800, "ammount")>>,
            bytes,
            Put(Put(Put(bytes, 0, cmd.motor), 1, Low7(cmd.ammount)), 2, High7(cmd.ammount)))

\* MultiDeviceErrorCheck::encode_body
MultiDeviceErrorCheck_encode_body(cmd, bytes) ==
    Checked(<<check_value(cmd.starting_device_number, 0, 127, "starting_device_number"),
              check_value(cmd.device_count, 0, 127, "device_count")>>,
            bytes,
            Put(Put(bytes, 0, cmd.starting_device_number), 1, cmd.device_count))

\* Command::encode_body, writing into the slice `bytes` (at least num_bytes long)
RECURSIVE encode_body(_, _)
encode_body(cmd, bytes) ==
    CASE cmd.type = "SetProtocolOptions" -> SetProtocolOptions_encode_body(cmd, bytes)
      [] cmd.type = "ReadEeprom" -> ReadEeprom_encode_body(cmd, bytes)
      [] cmd.type = "WriteEeprom" -> WriteEeprom_encode_body(cmd, bytes)
      [] cmd.type = "GetVariables" -> GetVariables_encode_body(cmd, bytes)
      [] cmd.type = "SetVariable" -> SetVariable_encode_body(cmd, bytes)
      [] cmd.type = "ClearMotorFault" -> ClearMotorFault_encode_body(cmd, bytes)
      [] cmd.type = "ClearLatchedStatusFlags" -> LatchedStatusFlags_encode_body(cmd, bytes)
      [] cmd.type = "SetLatchedStatusFlags" -> LatchedStatusFlags_encode_body(cmd, bytes)
      [] cmd.type = "SetSpeed" -> SetSpeed_encode_body(cmd, bytes)
      [] cmd.type = "SetAllSpeeds" -> SetAllSpeeds_encode_body_from(cmd, 0, bytes)
      [] cmd.type = "SetBraking" -> SetBraking_encode_body(cmd, bytes)
      [] cmd.type = "MultiDeviceErrorCheck" -> MultiDeviceErrorCheck_encode_body(cmd, bytes)
      [] cmd.type = "MultiDeviceWrite" ->
            \* MultiDeviceWrite::encode_body
            LET checks == <<check_value(cmd.starting_device_number, 0, 127,
                                        "starting_device_number"),
                            check_value(cmd.device_count, 0, 127, "device_count")>>
                command_length == num_bytes(cmd.command)
                header == Put(Put(Put(Put(bytes, 0, cmd.starting_device_number),
                                      1, cmd.device_count),
                                  2, command_length),
                              3, code(cmd.command))
                inner == encode_body(cmd.command, SubSeq(header, 5, Len(header)))
            IN IF FirstErr(checks) # NoErr THEN Body(FirstErr(checks), bytes)
               ELSE Body(inner.err, SubSeq(header, 1, 4) \o inner.bytes)
      [] OTHER -> Body(NoErr, bytes)    \* noop_encode!

-----------------------------------------------------------------------------
(* The frame codec.                                                        *)

\* Result<Vec<u8>>: Ok(bytes) or Err(err)
Ok(v) == [ok |-> TRUE, value |-> v, err |-> NoErr]
Err(e) == [ok |-> FALSE, value |-> <<>>, err |-> e]

\* response[len - 1] = get_crc(&response[..len - 1]) on a response whose last slot is free
with_trailing_crc_of_body_only(response) ==
    Put(response, Len(response) - 1, get_crc(SubSeq(response, 2, Len(response) - 1)))

with_trailing_crc(response) ==
    Put(response, Len(response) - 1, get_crc(SubSeq(response, 1, Len(response) - 1)))

\* the end of encode_command: `?` on the body's result, then the checksum
finish_frame(opcode, body, with_crc) ==
    IF body.err # NoErr THEN Err(body.err)
    ELSE IF with_crc THEN Ok(with_trailing_crc(<<opcode>> \o body.bytes))
    ELSE Ok(<<opcode>> \o body.bytes)

\* encode_command: the buffer is vec![0; len], the body is written into response[1..]
encode_command(cmd, with_crc) ==
    finish_frame(code(cmd),
                 encode_body(cmd, Zeros(num_bytes(cmd) + (IF with_crc THEN 1 ELSE 0))),
                 with_crc)

-----------------------------------------------------------------------------
(* The response family and decode_response.                                *)

\* the Response type of a command: Command::Response
ResponseType(cmd) ==
    CASE cmd.type = "GetFirmwareVersion" -> "FirmwareVersion"
      [] cmd.type \in {"ReadEeprom", "GetVariables"} -> "Vec"
      [] cmd.type = "MultiDeviceErrorCheck" -> "MultiDeviceErrorCheckReponse"
      [] OTHER -> "Unit"

\* <() as Response>::parse
Unit_parse(data) ==
    IF Len(data) # 0 THEN Err(InvalidResponseLength(0, Len(data))) ELSE Ok(<<>>)

\* <Vec<u8> as Response>::parse
Vec_parse(data) == Ok(data)

FirmwareVersion_parse_first_four(data) ==
    IF Len(data) < 4 THEN Err(InvalidResponseLength(4, Len(data)))
    ELSE Ok([product_id |-> BitOr(data[1], (data[2] * (2 ^ 8)) % 65536),
             minor_fw_version |-> data[3],
             major_fw_version |-> data[4]])

\* <FirmwareVersion as Response>::parse
FirmwareVersion_parse(data) ==
    IF Len(data) # 4 THEN Err(InvalidResponseLength(4, Len(data)))
    ELSE Ok([product_id |-> BitOr(data[1], (data[2] * (2 ^ 8)) % 65536),
             minor_fw_version |-> data[3],
             major_fw_version |-> data[4]])

MultiDeviceErrorCheckReponse_parse_two_way(data) ==
    IF Len(data) # 1 THEN Err(InvalidResponseLength(1, Len(data)))
    ELSE Ok(CASE data[1] = 60 -> [tag |-> "Ok"]
              [] OTHER -> [tag |-> "ErrorActive"])

\* <MultiDeviceErrorCheckReponse as Response>::parse
MultiDeviceErrorCheckReponse_parse(data) ==
    IF Len(data) # 1 THEN Err(InvalidResponseLength(1, Len(data)))
    ELSE Ok(CASE data[1] = 0 -> [tag |-> "ErrorActive"]
              [] data[1] = 60 -> [tag |-> "Ok"]
              [] OTHER -> [tag |-> "Unknown", v |-> data[1]])

\* Response::parse of the response type rtype
parse(rtype, data) ==
    CASE rtype = "Unit" -> Unit_parse(data)
      [] rtype = "Vec" -> Vec_parse(data)
      [] rtype = "FirmwareVersion" -> FirmwareVersion_parse(data)
      [] rtype = "MultiDeviceErrorCheckReponse" -> MultiDeviceErrorCheckReponse_parse(data)

\* data without its last byte: what data.pop() leaves
Front(data) == SubSeq(data, 1, Len(data) - 1)

decode_response_unchecked(rtype, data, with_crc) ==
    IF with_crc
    THEN IF Len(data) = 0 THEN Err(InvalidResponseLength(1, 0))
         ELSE parse(rtype, Front(data))
    ELSE parse(rtype, data)

\* decode_response::<C> where C::Response is rtype
decode_response(rtype, data, with_crc) ==
    IF with_crc
    THEN IF Len(data) = 0 THEN Err(InvalidResponseLength(1, 0))
         ELSE LET actual == data[Len(data)]
                  expected == get_crc(Front(data))
              IN IF expected # actual THEN Err(InvalidResponseCrc(expected, actual))
                 ELSE parse(rtype, Front(data))
    ELSE parse(rtype, data)

-----------------------------------------------------------------------------
(* ControllerType and f32 speeds.                                          *)

ControllerType ==
    {"M1T550", "M1U550", "M2T550", "M2U550", "M1T256", "M1U256", "M2T256", "M2U256",
     "M3S550", "M3H550", "M3S256", "M3H256", "M2S24v14", "M2H24v14", "M2S24v16",
     "M2H24v16", "M2S18v18", "M2H18v18", "M2S18v20", "M2H18v20"}

\* ControllerType::motor_channels
motor_channels(ct) ==
    CASE ct \in {"M1T550", "M1U550", "M1T256", "M1U256"} -> 1
      [] ct \in {"M2T550", "M2U550", "M2T256", "M2U256", "M2S24v14", "M2H24v14",
                 "M2S24v16", "M2H24v16", "M2S18v18", "M2H18v18", "M2S18v20",
                 "M2H18v20"} -> 2
      [] ct \in {"M3S550", "M3H550", "M3S256", "M3H256"} -> 3

\* the denominator of the modelled floats
SpeedDen == 2 ^ 10
F32(n) == <<"num", n>>
NaN == <<"nan", 0>>
IsNaN(speed) == speed[1] = "nan"

\* speed.abs() > 1. (false of a NaN, as every comparison with a NaN is)
abs_gt_1(speed) == ~IsNaN(speed) /\ (speed[2] > SpeedDen \/ speed[2] < -SpeedDen)

\* integer division rounding toward zero
TruncDiv(a, b) == IF a >= 0 THEN a \div b ELSE -((-a) \div b)

\* (speed * 800.) as i16: truncates toward zero, saturates, and takes NaN to 0
scale_speed(speed) ==
    IF IsNaN(speed) THEN 0
    ELSE LET q == TruncDiv(speed[2] * 800, SpeedDen)
         IN IF q > 32767 THEN 32767 ELSE IF q < -32768 THEN -32768 ELSE q

-----------------------------------------------------------------------------
(* lib.rs: the errors of the session.                                      *)

\* Error::I2c
I2cError == [kind |-> "I2c"]
\* Error::InvalidSpeed
InvalidSpeed(speed) == [kind |-> "InvalidSpeed", speed |-> speed]
\* Error::InvalidMotor
InvalidMotor(provided, num_motors) ==
    [kind |-> "InvalidMotor", provided |-> provided, num_motors |-> num_motors]
\* Error::IncorrectNumberSpeeds
IncorrectNumberSpeeds(provided, actual) ==
    [kind |-> "IncorrectNumberSpeeds", provided |-> provided, actual |-> actual]

-----------------------------------------------------------------------------
(* The controller at the other end of the bus, as far as its protocol      *)
(* options go: it starts with, and returns on Reinitialise to, its default *)
(* options, and it applies a frame only if it accepts it under its current *)
(* checksum-on-commands setting.                                           *)

Options(c, r, g) == [cmd_crc |-> c, res_crc |-> r, i2c_general_call |-> g]

DeviceDefault == Options(TRUE, TRUE, TRUE)

\* a frame of n body bytes is complete, and its checksum right when the controller wants one
DeviceAccepts(d, frame, n) ==
    IF d.cmd_crc
    THEN Len(frame) = n + 2 /\ frame[n + 2] = get_crc(SubSeq(frame, 1, n + 1))
    ELSE Len(frame) >= n + 1

\* the controller's options after the frame
DeviceReceive(d, frame) ==
    CASE frame[1] = 139 /\ DeviceAccepts(d, frame, 2) /\ frame[3] = Xor8(frame[2], 127) ->
            Options(BitAnd(frame[2], 1) # 0, BitAnd(frame[2], 2) # 0, BitAnd(frame[2], 4) # 0)
      [] frame[1] = 150 /\ DeviceAccepts(d, frame, 0) -> DeviceDefault
      [] OTHER -> d

-----------------------------------------------------------------------------
(* lib.rs: Device.  A call runs to its end in one step; `r` is the call in *)
(* progress: the frames handed to device.write so far (writes), the        *)
(* controller's options (dev), the first frame the bus ever accepted       *)
(* (first), the error that ended the call (res, NoErr while it runs), the  *)
(* lengths of the buffers handed to device.read (reads) and the value the  *)
(* call returns in its Ok (value, <<>> for the unit).                      *)
(* A device.write may fail: io_ok says whether this one succeeds; a failed *)
(* write delivers nothing.                                                 *)

Start ==
    [writes |-> <<>>, dev |-> dev, first |-> first_write, res |-> NoErr, reads |-> <<>>,
     value |-> <<>>]

\* device.write(&data[..]) and what the controller makes of it
device_write(r, frame, io_ok) ==
    IF ~io_ok
    THEN [r EXCEPT !.writes = Append(@, frame), !.res = I2cError]
    ELSE [r EXCEPT !.writes = Append(@, frame),
                   !.dev = DeviceReceive(@, frame),
                   !.first = IF @ = <<>> THEN <<frame>> ELSE @]

\* the body of write_command once the command is encoded
write_encoded(r, data, io_ok) ==
    IF ~data.ok THEN [r EXCEPT !.res = data.err] ELSE device_write(r, data.value, io_ok)

\* Device::write_command, skipped when an earlier step of the call returned Err (`?`)
write_command(r, cmd, crc, io_ok) ==
    IF r.res # NoErr THEN r ELSE write_encoded(r, encode_command(cmd, crc), io_ok)

SetProtocolOptionsCmd(c, rs, g) ==
    [type |-> "SetProtocolOptions", crc_for_commands |-> c, crc_for_responses |-> rs,
     i2c_general_call |-> g]

\* Device::write_protocol_options of a Device whose flags are c, rs, g
write_protocol_options(r, c, rs, g, io_ok) ==
    write_command(r, SetProtocolOptionsCmd(c, rs, g), c, io_ok)

get_speed_cmd_zero_based(ct, motor_idx, speed, mode) ==
    LET num_motors == motor_channels(ct)
    IN IF abs_gt_1(speed) THEN Err(InvalidSpeed(speed))
       ELSE IF motor_idx >= num_motors THEN Err(InvalidMotor(motor_idx, num_motors))
       ELSE Ok([type |-> "SetSpeed", mode |-> mode, speed |-> scale_speed(speed),
                motor |-> motor_idx])

\* Device::get_speed_cmd
get_speed_cmd(ct, motor_idx, speed, mode) ==
    LET num_motors == motor_channels(ct)
    IN IF abs_gt_1(speed) THEN Err(InvalidSpeed(speed))
       ELSE IF motor_idx >= num_motors THEN Err(InvalidMotor(motor_idx, num_motors))
       ELSE Ok([type |-> "SetSpeed", mode |-> mode, speed |-> scale_speed(speed),
                motor |-> motor_idx + 1])

\* device.read(&mut data[..]) on a buffer of n bytes; a failed read returns Err
device_read(r, n, read_ok) ==
    IF ~read_ok
    THEN [r EXCEPT !.reads = Append(@, n), !.res = I2cError]
    ELSE [r EXCEPT !.reads = Append(@, n)]

\* `?` on the result of decode_response, then Ok(response)
decoded_into(r, response) ==
    IF r.res # NoErr THEN r
    ELSE IF ~response.ok THEN [r EXCEPT !.res = response.err]
    ELSE [r EXCEPT !.value = response.value]

read_command_whatever_came_before(r, cmd, rs, read_ok, data) ==
    decoded_into(device_read([r EXCEPT !.res = NoErr],
                             expected_response_bytes(cmd) + (IF rs THEN 1 ELSE 0), read_ok),
                 decode_response(ResponseType(cmd), data, rs))

\* Device::read_command of a Device whose res_crc is rs, skipped when an earlier step of
\* the call returned Err (`?`); data is the buffer as a successful read leaves it
read_command(r, cmd, rs, read_ok, data) ==
    IF r.res # NoErr THEN r
    ELSE decoded_into(device_read(r, expected_response_bytes(cmd) + (IF rs THEN 1 ELSE 0),
                                  read_ok),
                      decode_response(ResponseType(cmd), data, rs))

\* the step of a call that ends it with Err(e) unless it has ended already
Fail(r, e) == IF r.res # NoErr THEN r ELSE [r EXCEPT !.res = e]

\* what a call leaves behind
Finish(op, args, r) ==
    /\ dev' = r.dev
    /\ first_write' = r.first
    /\ last' = [op |-> op, args |-> args, res |-> r.res, writes |-> r.writes,
                reads |-> r.reads, value |-> r.value]

-----------------------------------------------------------------------------
(* The inputs the calls are tried on.                                      *)

ControllerTypeInputs == {"M1T550", "M2T256", "M3S550"}
MotorIdxInputs == 0..3
\* the floats -1025/1024, -1.0, -1/1024, 513/1024, 1.0, 1025/1024, and NaN
SpeedInputs == {F32(-1025), F32(-1024), F32(-1), F32(513), F32(1024), F32(1025), NaN}
AllSpeedInputs == {F32(-1024), F32(1025), NaN}
PairInputs == {<<0, F32(1024)>>, <<2, NaN>>, <<1, F32(1025)>>}
FlagsInputs == {0, 128, 1023, 1024}
\* what a read may leave in the buffer after a version query: a payload, alone or followed
\* by its checksum or by another byte
VersionPayloads == {<<204, 0, 2, 1>>, <<0, 60, 127, 0>>}
ReadInputs ==
    VersionPayloads
        \cup {Append(p, get_crc(p)) : p \in VersionPayloads}
        \cup {Append(p, (get_crc(p) + 1) % 256) : p \in VersionPayloads}

\* the sequences over S of length at most n
SeqsUpTo(S, n) == UNION {[1..k -> S] : k \in 0..n}

-----------------------------------------------------------------------------
(* The calls.                                                              *)

Init ==
    /\ state = "Uninitialized"
    /\ controller_type = "None"
    /\ cmd_crc = FALSE
    /\ res_crc = FALSE
    /\ i2c_general_call = FALSE
    /\ dev = DeviceDefault
    /\ first_write = <<>>
    /\ last = [op |-> "none", args |-> <<>>, res |-> NoErr, writes |-> <<>>, reads |-> <<>>,
               value |-> <<>>]

\* the end of Device::new: `?` on the result of write_protocol_options
new_done(ct, r) ==
    /\ state' = IF r.res = NoErr THEN "Ready" ELSE "Failed"
    /\ controller_type' = ct
    /\ cmd_crc' = TRUE
    /\ res_crc' = TRUE
    /\ i2c_general_call' = TRUE
    /\ Finish("new", <<ct>>, r)

new_without_write(ct, open_ok, io_ok) ==
    /\ state = "Uninitialized"
    /\ IF ~open_ok
       THEN /\ state' = "Failed"
            /\ UNCHANGED <<controller_type, cmd_crc, res_crc, i2c_general_call>>
            /\ Finish("new", <<ct>>, Fail(Start, I2cError))
       ELSE new_done(ct, Start)

\* Device::new; LinuxI2CDevice::new fails when ~open_ok
new(ct, open_ok, io_ok) ==
    /\ state = "Uninitialized"
    /\ IF ~open_ok
       THEN /\ state' = "Failed"
            /\ UNCHANGED <<controller_type, cmd_crc, res_crc, i2c_general_call>>
            /\ Finish("new", <<ct>>, Fail(Start, I2cError))
       ELSE new_done(ct, write_protocol_options(Start, TRUE, TRUE, TRUE, io_ok))

reinitialise_options_first(fail) ==
    /\ state = "Ready"
    /\ Finish("reinitialise", <<fail>>,
              write_command(
                  write_protocol_options(Start, cmd_crc, res_crc, i2c_general_call, fail # 1),
                  [type |-> "Reinitialise"], cmd_crc, fail # 2))
    /\ UNCHANGED <<state, controller_type, cmd_crc, res_crc, i2c_general_call>>

\* Device::reinitialise; the fail-th device.write of the call fails (none when 0), and
\* is kept with the call as its argument
reinitialise(fail) ==
    /\ state = "Ready"
    /\ Finish("reinitialise", <<fail>>,
              write_protocol_options(
                  write_command(Start, [type |-> "Reinitialise"], cmd_crc, fail # 1),
                  cmd_crc, res_crc, i2c_general_call, fail # 2))
    /\ UNCHANGED <<state, controller_type, cmd_crc, res_crc, i2c_general_call>>

\* Device::disable_crc
disable_crc(fail) ==
    /\ state = "Ready"
    /\ cmd_crc' = FALSE
    /\ res_crc' = FALSE
    /\ Finish("disable_crc", <<>>,
              write_protocol_options(Start, FALSE, FALSE, i2c_general_call, fail # 1))
    /\ UNCHANGED <<state, controller_type, i2c_general_call>>

enable_crc_commands_only(fail) ==
    /\ state = "Ready"
    /\ cmd_crc' = TRUE
    /\ res_crc' = res_crc
    /\ Finish("enable_crc", <<>>,
              write_protocol_options(Start, TRUE, res_crc, i2c_general_call, fail # 1))
    /\ UNCHANGED <<state, controller_type, i2c_general_call>>

\* Device::enable_crc
enable_crc(fail) ==
    /\ state = "Ready"
    /\ cmd_crc' = TRUE
    /\ res_crc' = TRUE
    /\ Finish("enable_crc", <<>>,
              write_protocol_options(Start, TRUE, TRUE, i2c_general_call, fail # 1))
    /\ UNCHANGED <<state, controller_type, i2c_general_call>>

\* Device::reset (the 10 ms sleep between the two writes changes no state)
reset(fail) ==
    /\ state = "Ready"
    /\ Finish("reset", <<fail>>,
              write_protocol_options(
                  write_command(Start, [type |-> "Reinitialise"], cmd_crc, fail # 1),
                  cmd_crc, res_crc, i2c_general_call, fail # 2))
    /\ UNCHANGED <<state, controller_type, cmd_crc, res_crc, i2c_general_call>>

\* `?` on a Result holding a command, then write_command of it
write_result(r, cmd, crc, io_ok) ==
    IF ~cmd.ok THEN Fail(r, cmd.err) ELSE write_command(r, cmd.value, crc, io_ok)

\* Device::set_speed
set_speed(motor_idx, speed, fail) ==
    /\ state = "Ready"
    /\ Finish("set_speed", <<motor_idx, speed>>,
              write_result(Start, get_speed_cmd(controller_type, motor_idx, speed, "Normal"),
                           cmd_crc, fail # 1))
    /\ UNCHANGED <<state, controller_type, cmd_crc, res_crc, i2c_general_call>>

\* the map over the speeds of set_all_speeds, collected: the first Err, or all the i16
RECURSIVE collect_speeds(_, _, _)
collect_speeds(speeds, i, acc) ==
    IF i > Len(speeds) THEN Ok(acc)
    ELSE IF abs_gt_1(speeds[i]) THEN Err(InvalidSpeed(speeds[i]))
    ELSE collect_speeds(speeds, i + 1, Append(acc, scale_speed(speeds[i])))

\* SetAllSpeeds { mode: SpeedMode::Normal, speeds } of the collected speeds, if Ok
SetAllSpeedsCmd(scaled) ==
    IF ~scaled.ok THEN scaled
    ELSE Ok([type |-> "SetAllSpeeds", mode |-> "Normal", speeds |-> scaled.value])

\* Device::set_all_speeds
set_all_speeds(speeds, fail) ==
    /\ state = "Ready"
    /\ Finish("set_all_speeds", speeds,
              IF motor_channels(controller_type) # Len(speeds)
              THEN Fail(Start, IncorrectNumberSpeeds(Len(speeds),
                                                     motor_channels(controller_type)))
              ELSE write_result(Start, SetAllSpeedsCmd(collect_speeds(speeds, 1, <<>>)),
                                cmd_crc, fail # 1))
    /\ UNCHANGED <<state, controller_type, cmd_crc, res_crc, i2c_general_call>>

\* the map over the pairs of set_multi_speed, collected: the first Err, or all the commands
RECURSIVE collect_cmds(_, _, _, _)
collect_cmds(ct, pairs, i, acc) ==
    IF i > Len(pairs) THEN Ok(acc)
    ELSE LET cmd == get_speed_cmd(ct, pairs[i][1], pairs[i][2], "Buffered")
         IN IF ~cmd.ok THEN cmd ELSE collect_cmds(ct, pairs, i + 1, Append(acc, cmd.value))

\* the loop of set_multi_speed over the commands, from the i-th on
RECURSIVE write_each(_, _, _, _, _)
write_each(r, cmds, i, crc, fail) ==
    IF i > Len(cmds) THEN r
    ELSE write_each(write_command(r, cmds[i], crc, fail # i), cmds, i + 1, crc, fail)

write_commit_then_buffered(r, cmds, crc, fail) ==
    IF ~cmds.ok THEN Fail(r, cmds.err)
    ELSE write_each(write_command(r, [type |-> "SetAllSpeedsUsingBuffers", mode |-> "Normal"],
                                  crc, fail # Len(cmds.value) + 1),
                    cmds.value, 1, crc, fail)

\* set_multi_speed after the collect: the buffered writes, then the commit
write_buffered_then_commit(r, cmds, crc, fail) ==
    IF ~cmds.ok THEN Fail(r, cmds.err)
    ELSE write_command(write_each(r, cmds.value, 1, crc, fail),
                       [type |-> "SetAllSpeedsUsingBuffers", mode |-> "Normal"],
                       crc, fail # Len(cmds.value) + 1)

\* Device::set_multi_speed
set_multi_speed(pairs, fail) ==
    /\ state = "Ready"
    /\ Finish("set_multi_speed", pairs,
              write_buffered_then_commit(Start, collect_cmds(controller_type, pairs, 1, <<>>),
                                         cmd_crc, fail))
    /\ UNCHANGED <<state, controller_type, cmd_crc, res_crc, i2c_general_call>>

\* Device::clear_latched_status_flags
clear_latched_status_flags(flags, fail) ==
    /\ state = "Ready"
    /\ Finish("clear_latched_status_flags", <<flags>>,
              write_command(Start, [type |-> "ClearLatchedStatusFlags", flags |-> flags],
                            cmd_crc, fail # 1))
    /\ UNCHANGED <<state, controller_type, cmd_crc, res_crc, i2c_general_call>>

\* Device::firmware_version; the buffer read_command hands to device.read has
\* response_len bytes, and data is that buffer after a successful read
firmware_version(fail, read_ok, data) ==
    /\ state = "Ready"
    /\ Len(data) = expected_response_bytes([type |-> "GetFirmwareVersion"])
                       + (IF res_crc THEN 1 ELSE 0)
    /\ Finish("firmware_version", <<fail, read_ok, data>>,
              read_command(write_command(Start, [type |-> "GetFirmwareVersion"], cmd_crc,
                                         fail # 1),
                           [type |-> "GetFirmwareVersion"], res_crc, read_ok, data))
    /\ UNCHANGED <<state, controller_type, cmd_crc, res_crc, i2c_general_call>>

Next ==
    \/ \E ct \in ControllerTypeInputs, open_ok \in BOOLEAN, io_ok \in BOOLEAN :
          new(ct, open_ok, io_ok)
    \/ \E fail \in 0..2 : reinitialise(fail)
    \/ \E fail \in 0..1 : disable_crc(fail)
    \/ \E fail \in 0..1 : enable_crc(fail)
    \/ \E fail \in 0..2 : reset(fail)
    \/ \E motor_idx \in MotorIdxInputs, speed \in SpeedInputs, fail \in 0..1 :
          set_speed(motor_idx, speed, fail)
    \/ \E speeds \in SeqsUpTo(AllSpeedInputs, MaxSpeeds), fail \in 0..1 :
          set_all_speeds(speeds, fail)
    \/ \E pairs \in SeqsUpTo(PairInputs, MaxPairs) :
          \E fail \in 0..(Len(pairs) + 1) : set_multi_speed(pairs, fail)
    \/ \E flags \in FlagsInputs, fail \in 0..1 : clear_latched_status_flags(flags, fail)
    \/ \E fail \in 0..1, read_ok \in BOOLEAN, data \in ReadInputs :
          firmware_version(fail, read_ok, data)

Spec == Init /\ [][Next]_vars

-----------------------------------------------------------------------------
(* The codec on its own: the commands, responses and checksum settings it  *)
(* is tried on are drawn by InitCodec, in a session that Device::new has   *)
(* built (and disable_crc may have been called on), and one step applies   *)
(* encode_command, decode_response or Device::write_command to them.       *)

U8Inputs == {0, 127, 128}
ModeInputs == {"Normal", "Now", "Buffered"}
I16Inputs == {-801, -800, -1, 0, 800, 801}

PlainCommands ==
    {[type |-> t] : t \in {"GetFirmwareVersion", "Reinitialise", "Reset", "CoastNow",
                           "ResetCommandTimeout"}}
    \cup {SetProtocolOptionsCmd(c, rs, g) : c \in BOOLEAN, rs \in BOOLEAN, g \in BOOLEAN}
    \cup {[type |-> "ClearMotorFault", unconditional |-> u] : u \in BOOLEAN}
    \cup {[type |-> "SetAllSpeedsUsingBuffers", mode |-> m] : m \in {"Normal", "Now"}}

EepromCommands ==
    {[type |-> "ReadEeprom", offset |-> o, length |-> l] :
        o \in U8Inputs, l \in {0, 1, 32, 33}}
    \cup {[type |-> "WriteEeprom", offset |-> o, value |-> v] :
        o \in U8Inputs, v \in {0, 127, 128, 255}}

VariableCommands ==
    {[type |-> "GetVariables", motor |-> m, offset |-> o, length |-> l] :
        m \in {0, 3, 4}, o \in {0, 128}, l \in {1, 33}}
    \cup {[type |-> "SetVariable", motor |-> m, offset |-> o, value |-> v] :
        m \in {0, 3, 4}, o \in U8Inputs, v \in {0, 127, 128, 16383, 16384}}
    \cup {[type |-> t, flags |-> f] :
        t \in {"ClearLatchedStatusFlags", "SetLatchedStatusFlags"},
        f \in {0, 127, 128, 1023, 1024}}

MotionCommands ==
    {[type |-> "SetSpeed", mode |-> m, motor |-> i, speed |-> v] :
        m \in ModeInputs, i \in {0, 3, 4}, v \in I16Inputs}
    \cup {[type |-> "SetAllSpeeds", mode |-> m, speeds |-> vs] :
        m \in ModeInputs, vs \in SeqsUpTo({-800, 800, 801}, MaxSpeeds)}
    \cup {[type |-> "SetBraking", mode |-> m, motor |-> i, ammount |-> a] :
        m \in {"Normal", "Now"}, i \in {0, 1, 3, 4}, a \in {0, 127, 128, 800, 801}}

MultiDeviceErrorChecks ==
    {[type |-> "MultiDeviceErrorCheck", starting_device_number |-> n, device_count |-> c] :
        n \in U8Inputs, c \in U8Inputs}

\* the commands a MultiDeviceWrite is tried around
InnerCommands ==
    {[type |-> "CoastNow"],
     SetProtocolOptionsCmd(FALSE, TRUE, TRUE),
     [type |-> "SetVariable", motor |-> 1, offset |-> 2, value |-> 16383],
     [type |-> "SetVariable", motor |-> 1, offset |-> 2, value |-> 16384],
     [type |-> "SetSpeed", mode |-> "Normal", motor |-> 1, speed |-> -800],
     [type |-> "SetSpeed", mode |-> "Buffered", motor |-> 4, speed |-> 0],
     [type |-> "SetAllSpeeds", mode |-> "Now", speeds |-> <<800, -1>>],
     [type |-> "SetAllSpeeds", mode |-> "Now", speeds |-> <<800, 801>>],
     [type |-> "MultiDeviceWrite", starting_device_number |-> 1, device_count |-> 2,
      command |-> [type |-> "SetBraking", mode |-> "Now", motor |-> 0, ammount |-> 5]],
     [type |-> "MultiDeviceWrite", starting_device_number |-> 1, device_count |-> 2,
      command |-> [type |-> "SetBraking", mode |-> "Now", motor |-> 3, ammount |-> 800]]}

MultiDeviceWrites ==
    {[type |-> "MultiDeviceWrite", starting_device_number |-> n, device_count |-> c,
      command |-> cmd] : n \in U8Inputs, c \in U8Inputs, cmd \in InnerCommands}

CommandInputs ==
    PlainCommands \cup EepromCommands \cup VariableCommands \cup MotionCommands
        \cup MultiDeviceErrorChecks \cup MultiDeviceWrites

ResponseTypes == {"Unit", "Vec", "FirmwareVersion", "MultiDeviceErrorCheckReponse"}

\* the payloads of the responses
PayloadInputs == SeqsUpTo({0, 60, 127}, MaxPayload)

\* a response as read from the bus: the payload alone, or followed by its checksum, or by
\* another byte
ResponseInputs ==
    PayloadInputs
        \cup {Append(p, get_crc(p)) : p \in PayloadInputs}
        \cup {Append(p, (get_crc(p) + 1) % 256) : p \in PayloadInputs}

\* one command for every value of a field that goes out as two bytes of 7 bits
FieldCommands ==
    {[type |-> "SetVariable", motor |-> 1, offset |-> 2, value |-> v] : v \in 0..16383}
    \cup {[type |-> "SetBraking", mode |-> "Normal", motor |-> 1, ammount |-> a] :
            a \in 0..800}
    \cup {[type |-> "SetSpeed", mode |-> "Normal", motor |-> 1, speed |-> v] :
            v \in -800..800}
    \cup {[type |-> "SetAllSpeeds", mode |-> "Normal", speeds |-> <<v, -v>>] :
            v \in -800..800}

\* the payloads handed to the parsers: those above, every single byte, and two versions
ParseInputs ==
    PayloadInputs \cup {<<b>> : b \in 0..255} \cup {<<204, 0, 2, 1>>, <<255, 1, 128, 3>>}

CodecInputs ==
    {<<"encode_command", cmd, c>> : cmd \in CommandInputs, c \in BOOLEAN}
        \cup {<<"encode_command", cmd, FALSE>> : cmd \in FieldCommands}
        \cup {<<"parse", rtype, data>> : rtype \in ResponseTypes, data \in ParseInputs}
        \cup {<<"write_command", cmd, io_ok>> : cmd \in CommandInputs, io_ok \in BOOLEAN}
        \cup {<<"decode_response", rtype, data, c>> :
                rtype \in ResponseTypes, data \in ResponseInputs, c \in BOOLEAN}

Pending(args) ==
    [op |-> "pending", args |-> args, res |-> NoErr, writes |-> <<>>, reads |-> <<>>,
     value |-> <<>>]

InitCodec ==
    /\ state = "Ready"
    /\ controller_type = "M2T256"
    /\ cmd_crc \in BOOLEAN
    /\ res_crc = cmd_crc
    /\ i2c_general_call = TRUE
    /\ dev = DeviceDefault
    /\ first_write = <<encode_command(SetProtocolOptionsCmd(TRUE, TRUE, TRUE), TRUE).value>>
    /\ last \in {Pending(args) : args \in CodecInputs}

\* a call of encode_command
encode_command_call ==
    /\ last.op = "pending"
    /\ last.args[1] = "encode_command"
    /\ last' = [last EXCEPT !.op = "encode_command",
                            !.res = encode_command(last.args[2], last.args[3])]
    /\ UNCHANGED <<state, controller_type, cmd_crc, res_crc, i2c_general_call, dev,
                   first_write>>

\* a call of decode_response
decode_response_call ==
    /\ last.op = "pending"
    /\ last.args[1] = "decode_response"
    /\ last' = [last EXCEPT !.op = "decode_response",
                            !.res = decode_response(last.args[2], last.args[3], last.args[4])]
    /\ UNCHANGED <<state, controller_type, cmd_crc, res_crc, i2c_general_call, dev,
                   first_write>>

\* a call of Response::parse
parse_call ==
    /\ last.op = "pending"
    /\ last.args[1] = "parse"
    /\ last' = [last EXCEPT !.op = "parse", !.res = parse(last.args[2], last.args[3])]
    /\ UNCHANGED <<state, controller_type, cmd_crc, res_crc, i2c_general_call, dev,
                   first_write>>

\* a call of Device::write_command on the session
write_command_call ==
    /\ last.op = "pending"
    /\ last.args[1] = "write_command"
    /\ state = "Ready"
    /\ Finish("write_command", last.args,
              write_command(Start, last.args[2], cmd_crc, last.args[3]))
    /\ UNCHANGED <<state, controller_type, cmd_crc, res_crc, i2c_general_call>>

NextCodec ==
    \/ encode_command_call
    \/ decode_response_call
    \/ parse_call
    \/ write_command_call

SpecCodec == InitCodec /\ [][NextCodec]_vars

-----------------------------------------------------------------------------
(* Properties of the session (checked under Spec).                         *)

\* the options byte of three flags, and what the byte after it must be
OptionsByte(c, r, g) ==
    (IF c THEN 1 ELSE 0) + 2 * (IF r THEN 1 ELSE 0) + 4 * (IF g THEN 1 ELSE 0)

\* f is a SetProtocolOptions frame carrying the flags c, r, g, framed as cmd_crc = c asks
IsOptionsFrame(f, c, r, g) ==
    /\ Len(f) = 3 + (IF c THEN 1 ELSE 0)
    /\ f[1] = 139
    /\ f[2] = OptionsByte(c, r, g)
    /\ f[3] = 127 - OptionsByte(c, r, g)

\* the signed 14-bit value held by the two bytes of frame f at positions k and k + 1
Wire14(f, k) ==
    IF f[k] + 128 * f[k + 1] >= 8192 THEN f[k] + 128 * f[k + 1] - 16384
    ELSE f[k] + 128 * f[k + 1]

\* the float is a number of [-1.0, 1.0]
InUnitRange(speed) == speed[1] = "num" /\ speed[2] >= -SpeedDen /\ speed[2] <= SpeedDen

\* the float is a number outside [-1.0, 1.0]
OutsideUnitRange(speed) == speed[1] = "num" /\ (speed[2] < -SpeedDen \/ speed[2] > SpeedDen)

\* w is the float times 800 with its fraction dropped
IsScaled(speed, w) ==
    /\ w >= -800 /\ w <= 800
    /\ IF speed[2] >= 0
       THEN w >= 0 /\ w * SpeedDen <= speed[2] * 800 /\ speed[2] * 800 < (w + 1) * SpeedDen
       ELSE w <= 0 /\ (-w) * SpeedDen <= (-speed[2]) * 800
                   /\ (-speed[2]) * 800 < (1 - w) * SpeedDen

SessionCalls == {"new", "enable_crc", "disable_crc", "reinitialise", "reset"}

\* C1: after every session operation that returns success (new, enable_crc, disable_crc,
\* reinitialise, reset), the controller's checksum-on-commands, checksum-on-responses and
\* general-call settings equal the session's cmd_crc, res_crc and i2c_general_call.
C1_OptionsSynchronized ==
    (state = "Ready" /\ last.op \in SessionCalls /\ last.res = NoErr)
        => dev = Options(cmd_crc, res_crc, i2c_general_call)

\* C2: the first frame the transport ever takes is the SetProtocolOptions frame of
\* Device::new, carrying the initial options (all three true); nothing is written before
\* Device::new, a Device exists only once that frame is written, and when Device::new
\* fails no frame has been written and no further call is ever made.
C2_FirstFrameIsProtocolOptions ==
    /\ first_write # <<>> => first_write = << <<139, 7, 120, 47>> >>
    /\ state = "Uninitialized" => first_write = <<>>
    /\ state = "Ready" => first_write # <<>>
    /\ state = "Failed" =>
          /\ first_write = <<>>
          /\ last.op = "new"
          /\ last.res = I2cError
          /\ last.writes \in {<<>>, << <<139, 7, 120, 47>> >>}
    /\ (last.op = "new" /\ state = "Ready") =>
          /\ last.res = NoErr
          /\ last.writes = << <<139, 7, 120, 47>> >>
          /\ cmd_crc /\ res_crc /\ i2c_general_call

C2_Witness ==
    /\ state = "Ready"
    /\ last.op = "set_speed"
    /\ last.res = NoErr
    /\ first_write = << <<139, 7, 120, 47>> >>

C4_CrcFlagsTogether ==
    /\ state = "Ready" => (cmd_crc = res_crc /\ i2c_general_call)
    /\ last.op = "enable_crc" =>
          /\ cmd_crc /\ res_crc
          /\ Len(last.writes) = 1
          /\ IsOptionsFrame(last.writes[1], TRUE, TRUE, i2c_general_call)
          /\ last.writes[1][2] = 7 /\ last.writes[1][3] = 120
    /\ last.op = "disable_crc" =>
          /\ ~cmd_crc /\ ~res_crc
          /\ Len(last.writes) = 1
          /\ IsOptionsFrame(last.writes[1], FALSE, FALSE, i2c_general_call)
          /\ last.writes[1] = <<139, 4, 123>>

C4_Witness ==
    /\ last.op = "enable_crc"
    /\ last.res = NoErr
    /\ last.writes = << <<139, 7, 120, 47>> >>

\* a pair that the validation of set_multi_speed turns down
PairRejected(pair) ==
    OutsideUnitRange(pair[2]) \/ pair[1] >= motor_channels(controller_type)

-----------------------------------------------------------------------------
(* Properties of the codec (checked under SpecCodec).                      *)

\* the frames of some commands, with their checksum, worked out by hand
KnownFrames(cmd) ==
    CASE cmd = [type |-> "GetFirmwareVersion"] -> <<135, 60>>
      [] cmd = SetProtocolOptionsCmd(TRUE, TRUE, TRUE) -> <<139, 7, 120, 47>>
      [] cmd = [type |-> "SetSpeed", mode |-> "Normal", motor |-> 1, speed |-> -800] ->
            <<209, 1, 96, 121, 125>>
      [] cmd = [type |-> "SetVariable", motor |-> 3, offset |-> 127, value |-> 16383] ->
            <<156, 3, 127, 127, 127, 116>>
      [] cmd = [type |-> "WriteEeprom", offset |-> 127, value |-> 255] ->
            <<149, 127, 1, 127, 0, 126, 0, 12>>
      [] cmd = [type |-> "MultiDeviceWrite", starting_device_number |-> 0,
                device_count |-> 127,
                command |-> [type |-> "SetVariable", motor |-> 1, offset |-> 2,
                             value |-> 16383]] ->
            <<249, 0, 127, 4, 156, 1, 2, 127, 127, 68>>
      [] OTHER -> <<>>

\* C6: a successful encode_command returns exactly 1 + num_bytes + (with_crc ? 1 : 0)
\* bytes: byte 0 is the opcode, bytes 1..1+num_bytes are the command's body, and with
\* with_crc the last byte is the checksum of opcode and body only; the firmware-version
\* query with checksum encodes to [0x87, checksum([0x87])].
C6_FrameLayout ==
    (last.op = "encode_command" /\ last.res.ok) =>
        LET cmd == last.args[2]
            with_crc == last.args[3]
            frame == last.res.value
            n == num_bytes(cmd)
        IN /\ Len(frame) = 1 + n + (IF with_crc THEN 1 ELSE 0)
           /\ frame[1] = code(cmd)
           /\ SubSeq(frame, 2, n + 1) = encode_body(cmd, Zeros(n)).bytes
           /\ with_crc => frame[n + 2] = get_crc(SubSeq(frame, 1, n + 1))
           /\ (with_crc /\ KnownFrames(cmd) # <<>>) => frame = KnownFrames(cmd)
           /\ (~with_crc /\ KnownFrames(cmd) # <<>>) => frame = Front(KnownFrames(cmd))

C6_Witness ==
    /\ last.op = "encode_command"
    /\ last.res.ok
    /\ last.args[3]
    /\ last.args[2].type = "MultiDeviceWrite"
    /\ last.args[2].command.type = "SetAllSpeeds"
    /\ Len(last.res.value) = 10

\* the range checks of a command in the order the code makes them: <<field, value, min, max>>
RECURSIVE RangeChecks(_)
RangeChecks(cmd) ==
    CASE cmd.type = "ReadEeprom" ->
            << <<"offset", cmd.offset, 0, 127>>, <<"length", cmd.length, 1, 32>> >>
      [] cmd.type = "WriteEeprom" -> << <<"offset", cmd.offset, 0, 127>> >>
      [] cmd.type = "GetVariables" ->
            << <<"motor", cmd.motor, 0, 3>>, <<"offset", cmd.offset, 0, 127>>,
               <<"length", cmd.length, 1, 32>> >>
      [] cmd.type = "SetVariable" ->
            << <<"motor", cmd.motor, 0, 3>>, <<"offset", cmd.offset, 0, 127>>,
               <<"value", cmd.value, 0, 16383>> >>
      [] cmd.type \in {"ClearLatchedStatusFlags", "SetLatchedStatusFlags"} ->
            << <<"flags", cmd.flags, 0, 1023>> >>
      [] cmd.type = "SetSpeed" ->
            << <<"motor", cmd.motor, 0, 3>>, <<"speed", cmd.speed, -800, 800>> >>
      [] cmd.type = "SetAllSpeeds" ->
            [i \in 1..Len(cmd.speeds) |-> <<"speeds", cmd.speeds[i], -800, 800>>]
      [] cmd.type = "SetBraking" ->
            << <<"motor", cmd.motor, 1, 3>>, <<"ammount", cmd.ammount, 0, 800>> >>
      [] cmd.type = "MultiDeviceErrorCheck" ->
            << <<"starting_device_number", cmd.starting_device_number, 0, 127>>,
               <<"device_count", cmd.device_count, 0, 127>> >>
      [] cmd.type = "MultiDeviceWrite" ->
            << <<"starting_device_number", cmd.starting_device_number, 0, 127>>,
               <<"device_count", cmd.device_count, 0, 127>> >> \o RangeChecks(cmd.command)
      [] OTHER -> <<>>

\* the positions of the checks that the command's fields fail
Failing(cmd) ==
    {i \in 1..Len(RangeChecks(cmd)) :
        RangeChecks(cmd)[i][2] < RangeChecks(cmd)[i][3]
            \/ RangeChecks(cmd)[i][2] > RangeChecks(cmd)[i][4]}

\* the InvalidValue of the first check that fails
FirstFailure(cmd) ==
    LET i == CHOOSE k \in Failing(cmd) : \A j \in Failing(cmd) : k <= j
        c == RangeChecks(cmd)[i]
    IN [kind |-> "InvalidValue", min |-> c[3], max |-> c[4], value |-> c[2], field |-> c[1]]

\* C7: whenever a field of a command is outside its inclusive range, encode_command returns
\* InvalidValue naming the field, the value, min and max, and no bytes, and the session's
\* write_command hands nothing to the transport.
C7_InvalidNeverWritten ==
    /\ (last.op = "encode_command" /\ Failing(last.args[2]) # {}) =>
          /\ ~last.res.ok
          /\ last.res.value = <<>>
          /\ last.res.err = FirstFailure(last.args[2])
    /\ (last.op = "write_command" /\ Failing(last.args[2]) # {}) =>
          /\ last.res = FirstFailure(last.args[2])
          /\ last.writes = <<>>
          /\ dev = DeviceDefault
          /\ first_write = << <<139, 7, 120, 47>> >>

C7_Witness ==
    /\ last.op = "write_command"
    /\ last.args[2].type = "MultiDeviceWrite"
    /\ last.args[2].starting_device_number = 127
    /\ last.args[2].command.type = "SetAllSpeeds"
    /\ last.res = [kind |-> "InvalidValue", min |-> -800, max |-> 800, value |-> 801,
                   field |-> "speeds"]
    /\ last.writes = <<>>

\* C8: with checksums enabled decode_response hands the bytes before the last to the
\* response parser if and only if the last byte is the checksum of those before it; on a
\* mismatch it returns InvalidResponseCrc{expected, actual} and no parsed value, on empty
\* input InvalidResponseLength{expected: 1, actual: 0}. With checksums disabled every
\* byte received goes to the parser.
C8_ChecksumGate ==
    last.op = "decode_response" =>
        LET rtype == last.args[2]
            data == last.args[3]
            with_crc == last.args[4]
        IN IF ~with_crc
           THEN /\ last.res = parse(rtype, data)
                /\ rtype = "Vec" => last.res = Ok(data)
           ELSE IF data = <<>>
           THEN last.res = Err(InvalidResponseLength(1, 0))
           ELSE IF data[Len(data)] = get_crc(Front(data))
           THEN /\ last.res = parse(rtype, Front(data))
                /\ rtype = "Vec" => last.res = Ok(Front(data))
                /\ last.res.err.kind # "InvalidResponseCrc"
           ELSE /\ ~last.res.ok
                /\ last.res.value = <<>>
                /\ last.res.err = InvalidResponseCrc(get_crc(Front(data)), data[Len(data)])
                /\ data = <<0, 60, 127, 0, 51>> => last.res.err = InvalidResponseCrc(50, 51)

C8_Witness ==
    /\ last.op = "decode_response"
    /\ last.args[2] = "FirmwareVersion"
    /\ last.args[3] = <<0, 60, 127, 0, 51>>
    /\ last.args[4]
    /\ last.res.err = InvalidResponseCrc(50, 51)

-----------------------------------------------------------------------------
(* Properties of the speed calls (checked under Spec).                     *)

\* what set_speed does when it accepts its input
SetSpeedAccepted ==
    LET motor_idx == last.args[1]
        speed == last.args[2]
    IN (InUnitRange(speed) /\ motor_idx < motor_channels(controller_type)) =>
           /\ Len(last.writes) = 1
           /\ last.writes[1][1] = 209
           /\ last.writes[1][2] = motor_idx + 1
           /\ Len(last.writes[1]) = 4 + (IF cmd_crc THEN 1 ELSE 0)
           /\ IsScaled(speed, Wire14(last.writes[1], 3))
           /\ speed = F32(SpeedDen) => Wire14(last.writes[1], 3) = 800
           /\ speed = F32(-SpeedDen) => Wire14(last.writes[1], 3) = -800
           /\ last.res \in {NoErr, I2cError}

\* C9 as it was claimed: set_speed with speed in [-1.0, 1.0] and motor_idx below the
\* channel count writes exactly one frame of opcode 0xD1 whose motor is motor_idx + 1 and
\* whose speed is the speed scaled into [-800, 800], so that the range checks of the
\* command never fail; with motor_idx at or above the channel count it returns
\* InvalidMotor and writes nothing.
C9_AsClaimed ==
    last.op = "set_speed" =>
        /\ SetSpeedAccepted
        /\ last.res.kind # "InvalidValue"
        /\ last.args[1] >= motor_channels(controller_type) =>
              /\ last.res = InvalidMotor(last.args[1], motor_channels(controller_type))
              /\ last.writes = <<>>

\* C9, amended: as claimed, but a motor_idx at or above the channel count gets InvalidMotor
\* only when the speed is not outside [-1.0, 1.0]; a speed outside [-1.0, 1.0] gets
\* InvalidSpeed whatever the motor_idx. Nothing is written in either case.
C9_SetSpeed ==
    last.op = "set_speed" =>
        /\ SetSpeedAccepted
        /\ last.res.kind # "InvalidValue"
        /\ OutsideUnitRange(last.args[2]) =>
              /\ last.res = InvalidSpeed(last.args[2])
              /\ last.writes = <<>>
        /\ (last.args[1] >= motor_channels(controller_type)
                /\ ~OutsideUnitRange(last.args[2])) =>
              /\ last.res = InvalidMotor(last.args[1], motor_channels(controller_type))
              /\ last.writes = <<>>

C9_Witness ==
    /\ last.op = "set_speed"
    /\ controller_type = "M2T256"
    /\ last.args = <<0, F32(SpeedDen)>>
    /\ last.res = NoErr
    /\ last.writes = << <<209, 1, 32, 6, 78>> >>

\* C10: set_all_speeds writes a frame only when the number of speeds is the channel
\* count and every speed is within [-1.0, 1.0], and then it writes exactly one frame of
\* opcode 0xE1 with a body of 2 x channel count bytes; otherwise it returns
\* IncorrectNumberSpeeds or InvalidSpeed and writes nothing.
C10_AllSpeeds ==
    last.op = "set_all_speeds" =>
        IF /\ Len(last.args) = motor_channels(controller_type)
           /\ \A i \in 1..Len(last.args) : InUnitRange(last.args[i])
        THEN /\ Len(last.writes) = 1
             /\ last.writes[1][1] = 225
             /\ Len(last.writes[1]) =
                    1 + 2 * motor_channels(controller_type) + (IF cmd_crc THEN 1 ELSE 0)
             /\ last.res \in {NoErr, I2cError}
        ELSE /\ last.writes = <<>>
             /\ last.res.kind \in {"IncorrectNumberSpeeds", "InvalidSpeed"}

-----------------------------------------------------------------------------
(* Properties of firmware_version (checked under Spec).                    *)

\* C11: firmware_version hands the transport the version-query frame first; if that
\* write fails there is no read and the failure is returned; otherwise there is exactly
\* one read, of 4 bytes plus one when res_crc is set, and the call returns the read's
\* failure, or the checksum failure of the bytes read under res_crc, or the version they
\* hold; in no case is there a second write or a second read.
C11_FirmwareVersion ==
    last.op = "firmware_version" =>
        /\ last.writes = << IF cmd_crc THEN <<135, 60>> ELSE <<135>> >>
        /\ IF last.args[1] = 1
           THEN last.reads = <<>> /\ last.res = I2cError
           ELSE /\ last.reads = << 4 + (IF res_crc THEN 1 ELSE 0) >>
                /\ IF ~last.args[2] THEN last.res = I2cError
                   ELSE IF res_crc /\ last.args[3][5] # get_crc(SubSeq(last.args[3], 1, 4))
                   THEN last.res = InvalidResponseCrc(get_crc(SubSeq(last.args[3], 1, 4)),
                                                      last.args[3][5])
                   ELSE /\ last.res = NoErr
                        /\ last.value = [product_id |-> last.args[3][1] + 256 * last.args[3][2],
                                         minor_fw_version |-> last.args[3][3],
                                         major_fw_version |-> last.args[3][4]]

\* a version read with its checksum and returned
C11_Witness ==
    /\ last.op = "firmware_version"
    /\ res_crc
    /\ last.writes = << <<135, 60>> >>
    /\ last.reads = <<5>>
    /\ last.res = NoErr
    /\ last.value = [product_id |-> 204, minor_fw_version |-> 2, major_fw_version |-> 1]

-----------------------------------------------------------------------------
(* Properties of the response parsers (checked under SpecCodec).           *)

\* C12: the firmware-version parser returns a version only of exactly 4 bytes, with
\* product id byte0 | (byte1 << 8), minor byte2 and major byte3, and the parser of the
\* unit only of exactly 0 bytes; of any other length they return
\* InvalidResponseLength{expected, actual}, expected 4 and 0, actual the length.
C12_LengthStrictParsers ==
    (last.op = "parse" /\ last.args[2] \in {"FirmwareVersion", "Unit"}) =>
        IF last.args[2] = "FirmwareVersion"
        THEN IF Len(last.args[3]) = 4
             THEN last.res = Ok([product_id |-> last.args[3][1] + 256 * last.args[3][2],
                                 minor_fw_version |-> last.args[3][3],
                                 major_fw_version |-> last.args[3][4]])
             ELSE last.res = Err(InvalidResponseLength(4, Len(last.args[3])))
        ELSE IF Len(last.args[3]) = 0
             THEN last.res = Ok(<<>>)
             ELSE last.res = Err(InvalidResponseLength(0, Len(last.args[3])))

\* five bytes turned down by the firmware-version parser
C12_Witness ==
    /\ last.op = "parse"
    /\ last.args[2] = "FirmwareVersion"
    /\ Len(last.args[3]) = 5
    /\ last.res = Err(InvalidResponseLength(4, 5))

\* C13: of a payload of one byte b the multi-device error-check parser returns
\* ErrorActive when b = 0x00, Ok when b = 0x3C and Unknown(b) for every other b; it
\* returns an error, InvalidResponseLength, only of a payload whose length is not 1.
C13_ErrorCheckParserTotal ==
    (last.op = "parse" /\ last.args[2] = "MultiDeviceErrorCheckReponse") =>
        IF Len(last.args[3]) = 1
        THEN /\ last.res.ok
             /\ last.res.value =
                    IF last.args[3][1] = 0 THEN [tag |-> "ErrorActive"]
                    ELSE IF last.args[3][1] = 60 THEN [tag |-> "Ok"]
                    ELSE [tag |-> "Unknown", v |-> last.args[3][1]]
        ELSE /\ ~last.res.ok
             /\ last.res.err = InvalidResponseLength(1, Len(last.args[3]))

\* the byte 0x7F parsed as the unrecognized variant
C13_Witness ==
    /\ last.op = "parse"
    /\ last.args[2] = "MultiDeviceErrorCheckReponse"
    /\ last.args[3] = <<127>>
    /\ last.res = Ok([tag |-> "Unknown", v |-> 127])

-----------------------------------------------------------------------------
(* Properties of the fields of 14 bits (checked under SpecCodec).          *)

\* low | (high << 7) of the bytes of frame f at positions k and k + 1
Join14(f, k) == BitOr(f[k], f[k + 1] * 128)

\* C14: in the frame of a SetVariable with value v in [0, 0x3FFF], and of a SetBraking
\* with amount v in [0, 800], the two bytes of the field, low first, give
\* low | (high << 7) = v; in the frame of a SetSpeed or SetAllSpeeds every speed s in
\* [-800, 800] gives low | (high << 7) = s mod 2^14, and no other speed of [-800, 800]
\* has that value, so distinct speeds go out as distinct pairs of bytes.
C14_RoundTrip14 ==
    (last.op = "encode_command" /\ last.res.ok) =>
        /\ last.args[2].type = "SetVariable" =>
                Join14(last.res.value, 4) = last.args[2].value
        /\ last.args[2].type = "SetBraking" =>
                Join14(last.res.value, 3) = last.args[2].ammount
        /\ last.args[2].type = "SetSpeed" =>
                /\ Join14(last.res.value, 3) = last.args[2].speed % 16384
                /\ \A t \in -800..800 :
                        t % 16384 = last.args[2].speed % 16384 => t = last.args[2].speed
        /\ last.args[2].type = "SetAllSpeeds" =>
                \A i \in 1..Len(last.args[2].speeds) :
                    /\ Join14(last.res.value, 2 * i) = last.args[2].speeds[i] % 16384
                    /\ \A t \in -800..800 :
                            t % 16384 = last.args[2].speeds[i] % 16384
                                => t = last.args[2].speeds[i]

\* the speeds -800 and 800 of one SetAllSpeeds, each in its two bytes
C14_Witness ==
    /\ last.op = "encode_command"
    /\ last.args[2] = [type |-> "SetAllSpeeds", mode |-> "Normal", speeds |-> <<-800, 800>>]
    /\ last.res = Ok(<<225, 96, 121, 32, 6>>)

-----------------------------------------------------------------------------
(* Properties of the bytes of a frame (checked under SpecCodec).           *)

\* C15: in every frame encode_command returns, every byte after the opcode is at most
\* 0x7F: the bytes of the body, the four header bytes of a MultiDeviceWrite among them,
\* and the checksum.
C15_TopBitClear ==
    (last.op = "encode_command" /\ last.res.ok) =>
        \A i \in 2..Len(last.res.value) : last.res.value[i] <= 127

-----------------------------------------------------------------------------
(* Properties of the opcodes (checked under SpecCodec).                    *)

\* the variant of a command and, where it has one, its sub-mode
Variant(cmd) == IF "mode" \in DOMAIN cmd THEN <<cmd.type, cmd.mode>> ELSE <<cmd.type>>

\* one command of every variant and sub-mode
VariantCommands ==
    PlainCommands
    \cup {[type |-> "ReadEeprom", offset |-> 0, length |-> 1],
          [type |-> "WriteEeprom", offset |-> 0, value |-> 0],
          [type |-> "GetVariables", motor |-> 0, offset |-> 0, length |-> 1],
          [type |-> "SetVariable", motor |-> 0, offset |-> 0, value |-> 0],
          [type |-> "ClearLatchedStatusFlags", flags |-> 0],
          [type |-> "SetLatchedStatusFlags", flags |-> 0],
          [type |-> "MultiDeviceErrorCheck", starting_device_number |-> 0, device_count |-> 0],
          [type |-> "MultiDeviceWrite", starting_device_number |-> 0, device_count |-> 0,
           command |-> [type |-> "CoastNow"]]}
    \cup {[type |-> "SetSpeed", mode |-> m, motor |-> 0, speed |-> 0] : m \in ModeInputs}
    \cup {[type |-> "SetAllSpeeds", mode |-> m, speeds |-> <<>>] : m \in ModeInputs}
    \cup {[type |-> "SetBraking", mode |-> m, motor |-> 1, ammount |-> 0] :
            m \in {"Normal", "Now"}}

\* C16: the opcode of a frame identifies the variant and sub-mode of its command: a
\* command whose opcode is the first byte of the frame is of the same variant and
\* sub-mode as the command the frame was made from.
C16_OpcodeInjective ==
    (last.op = "encode_command" /\ last.res.ok) =>
        \A other \in VariantCommands :
            code(other) = last.res.value[1] => Variant(other) = Variant(last.args[2])

-----------------------------------------------------------------------------
(* Properties of abandoned calls (checked under Spec).                     *)

\* C17: a call on a session that returns an error leaves cmd_crc, res_crc and
\* i2c_general_call as they were before the call.
C17_ErrorLeavesFlags ==
    [][(state = "Ready" /\ last'.res # NoErr) =>
          /\ cmd_crc' = cmd_crc
          /\ res_crc' = res_crc
          /\ i2c_general_call' = i2c_general_call]_vars

====
